---- MODULE Spec2Model ----
(***************************************************************************)
(* A model of features.py: the word feature extractor for author           *)
(* classification.  Strings are sequences of one-character strings, so     *)
(* that split, splitlines, the regular expression, lower, replace, sorted  *)
(* and the f-strings are computed character by character as Python does.   *)
(*                                                                         *)
(* Three specifications share the module's variables:                      *)
(*   SpecText    find_unique_words and read_paragraphs over every text of  *)
(*               at most MaxTextLen characters;                            *)
(*   SpecCorpus  create_dictionary and create_dataset over directories of  *)
(*               at most MaxFiles files, with several class tables;        *)
(*   Spec        main, run after run over one file system, the snapshot    *)
(*               file surviving from run to run.                           *)
(***************************************************************************)
EXTENDS Integers, Sequences, FiniteSets, TLC

VARIABLES
    text,            \* SpecText: the text handed to the function
    ret_words,       \* SpecText: the list find_unique_words returned
    ret_paragraphs,  \* SpecText: the list read_paragraphs returned
    called,          \* SpecText, SpecCorpus: the functions that have returned
    text_dir,        \* SpecCorpus: the directory's path
    dir,             \* SpecCorpus: the directory, file name -> contents
    classes,         \* SpecCorpus: the class table handed to create_dataset
    listing,         \* SpecCorpus: the order glob gave create_dataset
    args,            \* Spec: the parsed command line of the current run
    pc,              \* Spec: main's position
    err,             \* Spec: the exception that ended the run, or "none"
    dict_words,      \* main's dict_words (word -> index)
    full_dataset,    \* main's full_dataset: a list of <<para_id, features>>
    pruned_features, \* Spec: main's pruned_features, one row per example
    selected,        \* Spec: the feature indices the selector kept
    csv,             \* Spec: the text main prints
    full_ds_file     \* Spec: the snapshot file args.full_ds: <<>> or <<dataset>>

vars == <<text, ret_words, ret_paragraphs, called, text_dir, dir, classes,
          listing, args, pc, err, dict_words, full_dataset, pruned_features,
          selected, csv, full_ds_file>>

-----------------------------------------------------------------------------
(* Bounds of the model.                                                    *)

MaxTextLen == 6

MaxFiles == 2

MaxFeats == 3

-----------------------------------------------------------------------------
(* Characters and Python's str methods.                                    *)

LowerCase == <<"a","b","c","d","e","f","g","h","i","j","k","l","m",
               "n","o","p","q","r","s","t","u","v","w","x","y","z">>

UpperCase == <<"A","B","C","D","E","F","G","H","I","J","K","L","M",
               "N","O","P","Q","R","S","T","U","V","W","X","Y","Z">>

Digits == <<"0","1","2","3","4","5","6","7","8","9">>

Range(s) == {s[i] : i \in DOMAIN s}

IndexIn(s, c) == CHOOSE i \in DOMAIN s : s[i] = c

\* ord(c) for the characters the model uses.
Ord(c) ==
    IF c \in Range(UpperCase) THEN 64 + IndexIn(UpperCase, c)
    ELSE IF c \in Range(LowerCase) THEN 96 + IndexIn(LowerCase, c)
    ELSE IF c \in Range(Digits) THEN 47 + IndexIn(Digits, c)
    ELSE CASE c = "\n" -> 10
           [] c = " "  -> 32
           [] c = ","  -> 44
           [] c = "-"  -> 45
           [] c = "."  -> 46
           [] c = "/"  -> 47
           [] c = "_"  -> 95

\* A character the class [^a-zA-Z] does not match.
IsAlpha(c) == c \in Range(LowerCase) \cup Range(UpperCase)

\* A character str.split() separates on.
IsSpace(c) == c \in {" ", "\n"}

LowerChar(c) == IF c \in Range(UpperCase) THEN LowerCase[IndexIn(UpperCase, c)] ELSE c

\* s.lower()
Lower(s) == [i \in DOMAIN s |-> LowerChar(s[i])]

\* sub in s
Contains(s, sub) ==
    \E i \in 0..(Len(s) - Len(sub)) : SubSeq(s, i + 1, i + Len(sub)) = sub

\* s.replace(old, new), old not empty: the occurrences left to right, not overlapping.
RECURSIVE Replace(_, _, _)
Replace(s, old, new) ==
    IF Len(s) < Len(old) THEN s
    ELSE IF SubSeq(s, 1, Len(old)) = old
         THEN new \o Replace(SubSeq(s, Len(old) + 1, Len(s)), old, new)
         ELSE <<Head(s)>> \o Replace(Tail(s), old, new)

\* str(n) for n >= 0
RECURSIVE Str(_)
Str(n) == IF n < 10 THEN <<Digits[n + 1]>> ELSE Str(n \div 10) \o <<Digits[(n % 10) + 1]>>

\* text.split(): the maximal runs of characters that are not whitespace.
RECURSIVE SplitWs(_, _, _)
SplitWs(s, cur, acc) ==
    IF s = <<>> THEN (IF cur = <<>> THEN acc ELSE Append(acc, cur))
    ELSE IF IsSpace(Head(s))
         THEN SplitWs(Tail(s), <<>>, IF cur = <<>> THEN acc ELSE Append(acc, cur))
         ELSE SplitWs(Tail(s), Append(cur, Head(s)), acc)

Split(s) == SplitWs(s, <<>>, <<>>)

\* text.splitlines(): a final line break ends the last line and starts none.
RECURSIVE SplitLinesFrom(_, _, _)
SplitLinesFrom(s, cur, acc) ==
    IF s = <<>> THEN (IF cur = <<>> THEN acc ELSE Append(acc, cur))
    ELSE IF Head(s) = "\n"
         THEN SplitLinesFrom(Tail(s), <<>>, Append(acc, cur))
         ELSE SplitLinesFrom(Tail(s), Append(cur, Head(s)), acc)

SplitLines(s) == SplitLinesFrom(s, <<>>, <<>>)

\* a < b on str: by code point, a proper prefix first.
RECURSIVE StrLess(_, _)
StrLess(a, b) ==
    IF b = <<>> THEN FALSE
    ELSE IF a = <<>> THEN TRUE
    ELSE IF Head(a) = Head(b) THEN StrLess(Tail(a), Tail(b))
    ELSE Ord(Head(a)) < Ord(Head(b))

\* sorted(S) of a set of strings.
RECURSIVE Sorted(_)
Sorted(S) ==
    IF S = {} THEN <<>>
    ELSE LET least == CHOOSE w \in S : \A u \in S \ {w} : StrLess(w, u)
         IN  <<least>> \o Sorted(S \ {least})

\* The lists that hold exactly the elements of S, once each: list(set(...)),
\* glob(...) and the like return one of them.
Orderings(S) ==
    {f \in [1..Cardinality(S) -> S] : \A i, j \in 1..Cardinality(S) : f[i] = f[j] => i = j}

-----------------------------------------------------------------------------
(* find_unique_words                                                       *)

\* regex.sub('', word) with regex = [^a-zA-Z]
RegexSub(word) == SelectSeq(word, IsAlpha)

\* CleanWords with the length test made on the raw token, before the
\* regular expression has removed anything from it.
RECURSIVE CleanWordsRawLength(_, _)
CleanWordsRawLength(words, clean_words) ==
    IF words = <<>> THEN clean_words
    ELSE IF Len(Head(words)) < 2
         THEN CleanWordsRawLength(Tail(words), clean_words)
         ELSE CleanWordsRawLength(Tail(words),
                                  Append(clean_words, Lower(RegexSub(Head(words)))))

\* The loop over words: clean_words after it.
RECURSIVE CleanWords(_, _)
CleanWords(words, clean_words) ==
    IF words = <<>> THEN clean_words
    ELSE LET word == RegexSub(Head(words))
         IN  IF Len(word) < 2
             THEN CleanWords(Tail(words), clean_words)
             ELSE CleanWords(Tail(words), Append(clean_words, Lower(word)))

\* set(clean_words): find_unique_words returns list(set(clean_words)), these
\* words in an order of the set's choosing.
find_unique_words(t) == Range(CleanWords(Split(t), <<>>))

-----------------------------------------------------------------------------
(* read_paragraphs                                                         *)

\* The loop over lines: <<paragraph, paragraphs>> after it.
RECURSIVE ParagraphLoop(_, _, _)
ParagraphLoop(lines, paragraph, paragraphs) ==
    IF lines = <<>> THEN <<paragraph, paragraphs>>
    ELSE IF Head(lines) = <<>>
         THEN ParagraphLoop(Tail(lines), <<>>, Append(paragraphs, paragraph))
         ELSE ParagraphLoop(Tail(lines), paragraph \o <<" ">> \o Head(lines), paragraphs)

\* read_paragraphs without the flush after the loop.
read_paragraphs_no_final_flush(t) == ParagraphLoop(SplitLines(t), <<>>, <<>>)[2]

\* read_paragraphs of a file whose contents are t.
read_paragraphs(t) ==
    LET after == ParagraphLoop(SplitLines(t), <<>>, <<>>)
    IN  IF Len(after[1]) > 0 THEN Append(after[2], after[1]) ELSE after[2]

-----------------------------------------------------------------------------
(* glob and the files                                                      *)

\* os.path.join(text_dir, name)
PathJoin(td, name) == td \o <<"/">> \o name

\* os.path.basename(path)
Basename(path) ==
    LET slashes == {i \in DOMAIN path : path[i] = "/"}
    IN  IF slashes = {} THEN path
        ELSE SubSeq(path, (CHOOSE i \in slashes : \A j \in slashes : j <= i) + 1, Len(path))

\* A file name the pattern *.txt matches: it ends in .txt and does not start with a dot.
MatchesTxt(name) ==
    /\ Len(name) >= 4
    /\ SubSeq(name, Len(name) - 3, Len(name)) = <<".", "t", "x", "t">>
    /\ name[1] # "."

\* The paths glob(os.path.join(text_dir, '*.txt'), recursive=True) returns for
\* the directory d (name -> contents) at td; their order is the file system's.
Glob(td, d) == {PathJoin(td, name) : name \in {n \in DOMAIN d : MatchesTxt(n)}}

\* f.read() of the file at path txt of directory d.
ReadFile(d, txt) == d[Basename(txt)]

-----------------------------------------------------------------------------
(* create_dictionary                                                       *)

\* The loop over the files: the words dict_words holds after it (the list is
\* made a set right after, so only its elements count).
RECURSIVE ExtendWords(_, _, _)
ExtendWords(order, d, acc) ==
    IF order = <<>> THEN acc
    ELSE ExtendWords(Tail(order), d, acc \cup find_unique_words(ReadFile(d, Head(order))))

\* create_dictionary numbering the sorted words from 0.
create_dictionary_from_zero(d, order) ==
    LET words  == ExtendWords(order, d, {})
        sorted == Sorted(words)
    IN  [key \in words |-> IndexIn(sorted, key) - 1]

\* create_dictionary(text_dir) when glob lists the files of d in this order:
\* {key: value for value, key in enumerate(sorted(dict_words), start=1)}
create_dictionary(d, order) ==
    LET words  == ExtendWords(order, d, {})
        sorted == Sorted(words)
    IN  [key \in words |-> IndexIn(sorted, key)]

-----------------------------------------------------------------------------
(* paragraphs_to_features                                                  *)

\* np.zeros((len(dict_words)+1)).astype('uint8'): slots 0..len(dict_words)
Zeros(dw) == [j \in 0..Cardinality(DOMAIN dw) |-> 0]

\* set_class stopping at the first marker found in the file name.
RECURSIVE set_class_first_match(_, _, _)
set_class_first_match(features, txt, items) ==
    IF items = <<>> THEN features
    ELSE IF Contains(Lower(txt), Lower(Head(items)[1]))
         THEN [features EXCEPT ![0] = Head(items)[2] % 256]
         ELSE set_class_first_match(features, txt, Tail(items))

\* The loop over classes.items(): features[0] = value for every key whose
\* lowercase is in the lowercased txt, in the table's order (a uint8 slot).
RECURSIVE set_class(_, _, _)
set_class(features, txt, items) ==
    IF items = <<>> THEN features
    ELSE set_class(IF Contains(Lower(txt), Lower(Head(items)[1]))
                   THEN [features EXCEPT ![0] = Head(items)[2] % 256]
                   ELSE features,
                   txt, Tail(items))

\* set_features writing one slot too low: features[value - 1] = 1.
set_features_off_by_one(features, dw, words) ==
    [j \in DOMAIN features |->
        IF \E key \in DOMAIN dw : key \in words /\ dw[key] - 1 = j THEN 1 ELSE features[j]]

\* The loop over dict_words.items(): features[value] = 1 for every key in words.
set_features(features, dw, words) ==
    [j \in DOMAIN features |->
        IF \E key \in DOMAIN dw : key \in words /\ dw[key] = j THEN 1 ELSE features[j]]

\* para_id = f'{os.path.basename(txt).replace(".txt", "")}.{i}'
para_id(txt, i) ==
    Replace(Basename(txt), <<".", "t", "x", "t">>, <<>>) \o <<".">> \o Str(i)

paragraphs_to_features(dw, txt, paragraphs, cls) ==
    [i \in 1..Len(paragraphs) |->
        <<para_id(txt, i),
          set_features(set_class(Zeros(dw), txt, cls), dw, find_unique_words(paragraphs[i]))>>]

-----------------------------------------------------------------------------
(* create_dataset                                                          *)

\* create_dataset(dict_words, text_dir, classes) when glob lists the files of
\* d in this order.
RECURSIVE create_dataset(_, _, _, _)
create_dataset(dw, d, cls, order) ==
    IF order = <<>> THEN <<>>
    ELSE paragraphs_to_features(dw, Head(order), read_paragraphs(ReadFile(d, Head(order))), cls)
         \o create_dataset(dw, d, cls, Tail(order))

-----------------------------------------------------------------------------
(* prune_dataset (module info_gain): the information-gain selector.        *)

Min(a, b) == IF a <= b THEN a ELSE b

\* n^n, with 0^0 = 1: 2^(n log2 n), where 0 log2 0 = 0.
PowSelf(n) == IF n = 0 THEN 1 ELSE n ^ n

\* The product of the values of a function.
RECURSIVE Product(_)
Product(f) ==
    IF DOMAIN f = {} THEN 1
    ELSE LET x == CHOOSE y \in DOMAIN f : TRUE
         IN  f[x] * Product([y \in DOMAIN f \ {x} |-> f[y]])

\* The examples of ds whose feature f is v, and those among them of class c.
CountValue(ds, f, v) == Cardinality({k \in DOMAIN ds : ds[k][2][f] = v})

CountValueClass(ds, f, v, c) ==
    Cardinality({k \in DOMAIN ds : ds[k][2][f] = v /\ ds[k][2][0] = c})

\* With m examples, m * (P(f=1) H(C|f=1) + P(f=0) H(C|f=0)) is
\* log2(CondNum(f) / CondDen(f)): the sum of n_v log2 n_v over the values v of
\* f less the sum of n_vc log2 n_vc over values and classes.
CondNum(ds, f) ==
    Product([v \in {ds[k][2][f] : k \in DOMAIN ds} |-> PowSelf(CountValue(ds, f, v))])

CondDen(ds, f) ==
    Product([p \in {ds[k][2][f] : k \in DOMAIN ds} \X {ds[k][2][0] : k \in DOMAIN ds} |->
                PowSelf(CountValueClass(ds, f, p[1], p[2]))])

\* IG(f) >= IG(g): H(C) is common to both, so the conditional entropy of f is
\* at most that of g.
GainAtLeast(ds, f, g) == CondNum(ds, f) * CondDen(ds, g) <= CondNum(ds, g) * CondDen(ds, f)

\* The feature indices 1..|V| by descending information gain; features of
\* equal gain in any order (no tie-break is fixed).
Rankings(ds, dw) ==
    {r \in Orderings(1..Cardinality(DOMAIN dw)) :
        \A i, j \in DOMAIN r : i < j => GainAtLeast(ds, r[i], r[j])}

\* Every example has the slots 1..|V| the selector reads.
Readable(ds, dw) ==
    \A k \in DOMAIN ds : \A f \in 1..Cardinality(DOMAIN dw) : f \in DOMAIN ds[k][2]

\* prune_dataset keeping one feature more than asked for.
prune_dataset_one_more(ds, n_feats, dw, ranking) ==
    LET top == SubSeq(ranking, 1, Min(n_feats + 1, Len(ranking)))
    IN  [selected |-> top,
         features |-> [k \in DOMAIN ds |-> [j \in DOMAIN top |-> ds[k][2][top[j]]]]]

\* prune_dataset(full_dataset, n_feats, dict_words) for one ranking: the top
\* n_feats indices, all of them when n_feats > |V|, and per example the values
\* of those features in selection order.
prune_dataset(ds, n_feats, dw, ranking) ==
    LET top == SubSeq(ranking, 1, Min(n_feats, Len(ranking)))
    IN  [selected |-> top,
         features |-> [k \in DOMAIN ds |-> [j \in DOMAIN top |-> ds[k][2][top[j]]]]]

-----------------------------------------------------------------------------
(* data_to_csv                                                             *)

\* The inner loop: csv += f', {str(feat)}' for feat in the row.
RECURSIVE CsvFields(_)
CsvFields(row) ==
    IF row = <<>> THEN <<>>
    ELSE <<",", " ">> \o Str(Head(row)) \o CsvFields(Tail(row))

\* data_to_csv reading the first row of features for every example.
RECURSIVE data_to_csv_first_row(_, _)
data_to_csv_first_row(dataset, features) ==
    IF dataset = <<>> THEN <<>>
    ELSE data_to_csv_first_row(SubSeq(dataset, 1, Len(dataset) - 1), features)
         \o dataset[Len(dataset)][1] \o CsvFields(features[1]) \o <<"\n">>

\* data_to_csv(dataset, features): example i (the last of dataset here) is
\* written after the ones before it, with features[i].
RECURSIVE data_to_csv(_, _)
data_to_csv(dataset, features) ==
    IF dataset = <<>> THEN <<>>
    ELSE data_to_csv(SubSeq(dataset, 1, Len(dataset) - 1), features)
         \o dataset[Len(dataset)][1] \o CsvFields(features[Len(dataset)]) \o <<"\n">>

-----------------------------------------------------------------------------
(* SpecText: find_unique_words and read_paragraphs applied to every text   *)
(* of at most MaxTextLen characters over TextChars.                        *)

TextChars == {"a", "B", "-", " ", "\n"}

Texts == UNION {[1..k -> TextChars] : k \in 0..MaxTextLen}

NoDict == [w \in {} |-> 0]

NoArgs == [text_dir |-> <<>>, n_feats |-> 0, load_full_ds |-> FALSE, save_full_ds |-> FALSE]

\* The variables a specification does not use.
IdleText == text = <<>> /\ ret_words = <<>> /\ ret_paragraphs = <<>>

IdleCorpus == text_dir = <<>> /\ dir = NoDict /\ classes = <<>> /\ listing = <<>>

IdleMain ==
    /\ args = NoArgs /\ pc = "idle" /\ err = "none"
    /\ pruned_features = <<>> /\ selected = <<>> /\ csv = <<>> /\ full_ds_file = <<>>

corpusVars == <<text_dir, dir, classes, listing>>

mainVars == <<args, pc, err, pruned_features, selected, csv, full_ds_file>>

InitText ==
    /\ text \in Texts
    /\ ret_words = <<>> /\ ret_paragraphs = <<>> /\ called = {}
    /\ IdleCorpus /\ IdleMain
    /\ dict_words = NoDict /\ full_dataset = <<>>

\* words = find_unique_words(text): the list holds the set's words in some order.
CallFindUniqueWords ==
    /\ "find_unique_words" \notin called
    /\ ret_words' \in Orderings(find_unique_words(text))
    /\ called' = called \cup {"find_unique_words"}
    /\ UNCHANGED <<text, ret_paragraphs, corpusVars, mainVars, dict_words, full_dataset>>

\* paragraphs = read_paragraphs(txt) for a file txt holding text.
CallReadParagraphs ==
    /\ "read_paragraphs" \notin called
    /\ ret_paragraphs' = read_paragraphs(text)
    /\ called' = called \cup {"read_paragraphs"}
    /\ UNCHANGED <<text, ret_words, corpusVars, mainVars, dict_words, full_dataset>>

NextText == CallFindUniqueWords \/ CallReadParagraphs

SpecText == InitText /\ [][NextText]_vars

-----------------------------------------------------------------------------
(* Claims about find_unique_words and read_paragraphs (SpecText).          *)

\* The whitespace-separated tokens of t: the maximal runs without whitespace.
Tokens(t) ==
    {SubSeq(t, p[1], p[2]) : p \in
        {q \in (1..Len(t)) \X (1..Len(t)) :
            /\ q[1] <= q[2]
            /\ \A k \in q[1]..q[2] : t[k] \notin {" ", "\n"}
            /\ q[1] = 1 \/ t[q[1] - 1] \in {" ", "\n"}
            /\ q[2] = Len(t) \/ t[q[2] + 1] \in {" ", "\n"}}}

\* A token with every character outside [a-zA-Z] removed.
OnlyLetters(tok) == SelectSeq(tok, LAMBDA c : c \in Range(LowerCase) \cup Range(UpperCase))

ExpectedWords(t) ==
    {Lower(OnlyLetters(tok)) : tok \in {k \in Tokens(t) : Len(OnlyLetters(k)) >= 2}}

\* C7: find_unique_words returns exactly the lowercased, letters-only forms of
\* the whitespace-separated tokens that keep at least 2 letters: no word twice,
\* every word lowercase letters only and of length >= 2, none missing.
C7_UniqueWordsAreTheNormalizedTokens ==
    "find_unique_words" \in called =>
        /\ \A i, j \in DOMAIN ret_words : ret_words[i] = ret_words[j] => i = j
        /\ \A w \in Range(ret_words) : Len(w) >= 2 /\ Range(w) \subseteq Range(LowerCase)
        /\ Range(ret_words) = ExpectedWords(text)

\* A text of two words, one of them changed by the normalisation, and a token
\* that is dropped for keeping fewer than 2 letters.
C7_Witness ==
    /\ "find_unique_words" \in called
    /\ \/ /\ Len(ret_words) = 2
          /\ \E tok \in Tokens(text) : Lower(OnlyLetters(tok)) # tok
       \/ /\ Len(ret_words) = 1
          /\ \E tok \in Tokens(text) : Len(tok) >= 2 /\ Len(OnlyLetters(tok)) < 2

\* A text none of whose lines is empty.
NoBlankLine(t) ==
    /\ t = <<>> \/ t[1] # "\n"
    /\ \A i \in 1..(Len(t) - 1) : ~(t[i] = "\n" /\ t[i + 1] = "\n")

\* The lines of a text without blank lines, joined by single spaces: the text
\* without its final line break, every other line break a space.
WholeTextJoined(t) ==
    LET body == IF t # <<>> /\ t[Len(t)] = "\n" THEN SubSeq(t, 1, Len(t) - 1) ELSE t
    IN  [i \in DOMAIN body |-> IF body[i] = "\n" THEN " " ELSE body[i]]

\* C5 as stated: a text without blank lines gives exactly one paragraph, the
\* whole text with its lines joined by single spaces.
C5_Original_OneParagraphTheJoinedText ==
    ("read_paragraphs" \in called /\ NoBlankLine(text)) =>
        ret_paragraphs = <<WholeTextJoined(text)>>

\* C5 as amended: a text that has at least one line and no blank line gives
\* exactly one paragraph, a single space followed by the lines joined by single
\* spaces; the empty text gives no paragraph.
C5_OneParagraphWithLeadingSpace ==
    ("read_paragraphs" \in called /\ NoBlankLine(text)) =>
        IF text = <<>>
        THEN ret_paragraphs = <<>>
        ELSE ret_paragraphs = << <<" ">> \o WholeTextJoined(text) >>

\* A text of several lines, none blank, after read_paragraphs.
C5_Witness ==
    /\ "read_paragraphs" \in called
    /\ NoBlankLine(text)
    /\ \E i \in 1..(Len(text) - 1) : text[i] = "\n"
    /\ Len(ret_paragraphs) = 1

\* The maximal runs of non-empty lines, in order.
RECURSIVE RunsOf(_, _, _)
RunsOf(lines, run, runs) ==
    IF lines = <<>> THEN (IF run = <<>> THEN runs ELSE Append(runs, run))
    ELSE IF Head(lines) = <<>>
         THEN RunsOf(Tail(lines), <<>>, IF run = <<>> THEN runs ELSE Append(runs, run))
         ELSE RunsOf(Tail(lines), Append(run, Head(lines)), runs)

\* The lines of a run as one paragraph, a space before each.
RECURSIVE JoinRun(_)
JoinRun(run) == IF run = <<>> THEN <<>> ELSE <<" ">> \o Head(run) \o JoinRun(Tail(run))

ExpectedParagraphs(t) ==
    LET runs == RunsOf(SplitLines(t), <<>>, <<>>)
    IN  [k \in DOMAIN runs |-> JoinRun(runs[k])]

\* C6 as stated: the paragraphs returned are the runs of one or more non-blank
\* lines, in document order, each non-blank line in exactly one of them, and
\* none of them is empty.
C6_ParagraphsAreNonEmptyRuns ==
    "read_paragraphs" \in called =>
        /\ \A k \in DOMAIN ret_paragraphs : ret_paragraphs[k] # <<>>
        /\ ret_paragraphs = ExpectedParagraphs(text)

\* What does hold of read_paragraphs: its non-empty paragraphs are those runs.
NonEmptyParagraphsAreTheRuns ==
    "read_paragraphs" \in called =>
        SelectSeq(ret_paragraphs, LAMBDA p : p # <<>>) = ExpectedParagraphs(text)

-----------------------------------------------------------------------------
(* SpecCorpus: create_dictionary, then create_dataset, over a directory    *)
(* of at most MaxFiles text files (beside a file glob must skip), for      *)
(* several class tables.                                                   *)

Txt1 == <<"a", "b", " ", "b", "a">>

Txt2 == <<"A", "b", ",", " ", "a", "a", "\n", "\n", "b", "a", "\n">>

Txt3 == <<"a", "a", "\n", "\n", "\n", "b", "b", " ", "a">>

Txt4 == <<>>

Txt5 == <<"\n", "b", "-", "b", " ", "a", "b">>

DocTexts == {Txt1, Txt2, Txt3, Txt4, Txt5}

Austin1Txt == <<"a", "u", "s", "t", "i", "n", "1", ".", "t", "x", "t">>

ShelleyAustinTxt == <<"S", "h", "e", "l", "l", "e", "y", "-", "A", "u", "s", "t", "i", "n", ".", "t", "x", "t">>

ATxt == <<"a", ".", "t", "x", "t">>

ATxtTxt == <<"a", ".", "t", "x", "t", ".", "t", "x", "t">>

NotesMd == <<"n", "o", "t", "e", "s", ".", "m", "d">>

NotesText == <<"z", "z", " ", "a", "b">>

FileNames == {Austin1Txt, ShelleyAustinTxt, ATxt, ATxtTxt}

TextDirs == {<<"t", "x", "t", "s">>, <<"A", "u", "s", "t", "i", "n">>}

\* main's table, and two others: markers in another order, a capital in a marker.
MainClasses == <<<<<<"a", "u", "s", "t", "i", "n">>, 0>>, <<<<"s", "h", "e", "l", "l", "e", "y">>, 1>>>>

ClassTables ==
    {MainClasses,
     <<<<<<"a", "u", "s", "t", "i", "n">>, 1>>, <<<<"s", "h", "e", "l", "l", "e", "y">>, 2>>>>,
     <<<<<<"s", "h", "e", "l", "l", "e", "y">>, 2>>, <<<<"A", "u", "s", "t", "i", "n">>, 1>>>>}

Dirs ==
    {files @@ (NotesMd :> NotesText) :
        files \in UNION {[S -> DocTexts] : S \in {R \in SUBSET FileNames : Cardinality(R) <= MaxFiles}}}

InitCorpus ==
    /\ text_dir \in TextDirs
    /\ dir \in Dirs
    /\ classes \in ClassTables
    /\ listing = <<>> /\ called = {}
    /\ dict_words = NoDict /\ full_dataset = <<>>
    /\ IdleText /\ IdleMain

\* dict_words = create_dictionary(text_dir), glob listing the files in some order.
CallCreateDictionary ==
    /\ "create_dictionary" \notin called
    /\ \E order \in Orderings(Glob(text_dir, dir)) :
           dict_words' = create_dictionary(dir, order)
    /\ called' = called \cup {"create_dictionary"}
    /\ UNCHANGED <<text, ret_words, ret_paragraphs, corpusVars, mainVars, full_dataset>>

\* full_dataset = create_dataset(dict_words, text_dir, classes), glob listing
\* the files in an order of its own.
CallCreateDataset ==
    /\ "create_dictionary" \in called
    /\ "create_dataset" \notin called
    /\ \E order \in Orderings(Glob(text_dir, dir)) :
           /\ listing' = order
           /\ full_dataset' = create_dataset(dict_words, dir, classes, order)
    /\ called' = called \cup {"create_dataset"}
    /\ UNCHANGED <<text, ret_words, ret_paragraphs, text_dir, dir, classes, mainVars, dict_words>>

NextCorpus == CallCreateDictionary \/ CallCreateDataset

SpecCorpus == InitCorpus /\ [][NextCorpus]_vars

-----------------------------------------------------------------------------
(* Claims about create_dictionary and create_dataset (SpecCorpus).         *)

\* Every word of every file glob lists.
CorpusWords == UNION {ExpectedWords(ReadFile(dir, txt)) : txt \in Glob(text_dir, dir)}

\* a is lexicographically smaller than b (words are lowercase letters): they
\* agree on k characters, and then a ends or has the smaller letter.
LexSmaller(a, b) ==
    \E k \in 0..Len(a) :
        /\ k <= Len(b)
        /\ SubSeq(a, 1, k) = SubSeq(b, 1, k)
        /\ \/ k = Len(a) /\ k < Len(b)
           \/ /\ k < Len(a) /\ k < Len(b)
              /\ IndexIn(LowerCase, a[k + 1]) < IndexIn(LowerCase, b[k + 1])

\* C4: create_dictionary gives every word of the corpus the index 1 + (number
\* of corpus words lexicographically smaller); the mapping is injective, its
\* image is 1..|V|, 0 is never an index, and the mapping is the same whatever
\* the order glob lists the files in.
C4_IndexIsRankInSortedCorpusWords ==
    "create_dictionary" \in called =>
        /\ DOMAIN dict_words = CorpusWords
        /\ \A w \in CorpusWords :
               dict_words[w] = 1 + Cardinality({u \in CorpusWords : LexSmaller(u, w)})
        /\ \A u, w \in DOMAIN dict_words : dict_words[u] = dict_words[w] => u = w
        /\ {dict_words[w] : w \in DOMAIN dict_words} = 1..Cardinality(CorpusWords)

\* A dictionary of at least three words from two files that share a word.
C4_Witness ==
    /\ "create_dictionary" \in called
    /\ Cardinality(DOMAIN dict_words) >= 3
    /\ \E t1, t2 \in Glob(text_dir, dir) :
           /\ t1 # t2
           /\ ExpectedWords(ReadFile(dir, t1)) \cap ExpectedWords(ReadFile(dir, t2)) # {}
           /\ ExpectedWords(ReadFile(dir, t1)) # ExpectedWords(ReadFile(dir, t2))

\* The paragraphs behind the examples of full_dataset, in its order: the file
\* and the text of each.
RECURSIVE Origins(_)
Origins(order) ==
    IF order = <<>> THEN <<>>
    ELSE LET paragraphs == read_paragraphs(ReadFile(dir, Head(order)))
         IN  [i \in DOMAIN paragraphs |->
                 [txt |-> Head(order), i |-> i, paragraph |-> paragraphs[i]]]
             \o Origins(Tail(order))

\* C2: in every example, slot i (1 <= i <= |V|) is 1 if the vocabulary word of
\* index i is in find_unique_words of the example's paragraph and 0 if not.
C2_WordSlotsArePresenceBits ==
    "create_dataset" \in called =>
        /\ Len(full_dataset) = Len(Origins(listing))
        /\ \A k \in DOMAIN full_dataset :
               \A i \in 1..Cardinality(DOMAIN dict_words) :
                   /\ i \in DOMAIN full_dataset[k][2]
                   /\ full_dataset[k][2][i] =
                          IF \E w \in DOMAIN dict_words :
                                 /\ dict_words[w] = i
                                 /\ w \in find_unique_words(Origins(listing)[k].paragraph)
                          THEN 1 ELSE 0

\* Two examples that differ in a word slot, one of them with a 0 and a 1.
C2_Witness ==
    /\ "create_dataset" \in called
    /\ \E k, l \in DOMAIN full_dataset : \E i, j \in 1..Cardinality(DOMAIN dict_words) :
           /\ full_dataset[k][2][i] = 1 /\ full_dataset[k][2][j] = 0
           /\ full_dataset[l][2][i] = 0

\* The entries of the class table whose marker, lowercased, is in the
\* lowercased file name txt (the path handed to paragraphs_to_features).
MatchingEntries(txt) ==
    {j \in DOMAIN classes :
        \E i \in 0..(Len(txt) - Len(classes[j][1])) :
            \A c \in 1..Len(classes[j][1]) :
                LowerChar(txt[i + c]) = LowerChar(classes[j][1][c])}

\* C3: slot 0 of every paragraph of a document is the class id of the last
\* entry of the class table whose lowercased marker is in the document's
\* lowercased file name, and 0 when there is none.
C3_ClassSlotIsLastMatchingMarker ==
    "create_dataset" \in called =>
        /\ Len(full_dataset) = Len(Origins(listing))
        /\ \A k \in DOMAIN full_dataset :
               LET matching == MatchingEntries(Origins(listing)[k].txt)
               IN  full_dataset[k][2][0] =
                       IF matching = {} THEN 0
                       ELSE classes[CHOOSE j \in matching : \A m \in matching : m <= j][2]

\* A dataset with a document whose name holds two markers of different
\* classes, the first of them not class 0, and a document whose name holds none.
C3_Witness ==
    /\ "create_dataset" \in called
    /\ \E k, l \in DOMAIN full_dataset :
           /\ Cardinality(MatchingEntries(Origins(listing)[k].txt)) = 2
           /\ classes[1][2] # 0
           /\ classes[1][2] # classes[2][2]
           /\ MatchingEntries(Origins(listing)[l].txt) = {}

\* The base name of a document: its file name without ".txt".
DocumentBaseName(txt) == Replace(Basename(txt), <<".", "t", "x", "t">>, <<>>)

\* C10 as stated: the id of the i-th paragraph of a document is its base name,
\* a dot and i, and no two examples of a dataset share an id.
C10_ParagraphIdsAreDistinct ==
    "create_dataset" \in called =>
        /\ Len(full_dataset) = Len(Origins(listing))
        /\ \A k \in DOMAIN full_dataset :
               full_dataset[k][1] = DocumentBaseName(Origins(listing)[k].txt)
                                        \o <<".">> \o Str(Origins(listing)[k].i)
        /\ \A k, l \in DOMAIN full_dataset :
               full_dataset[k][1] = full_dataset[l][1] => k = l

\* What does hold: within one document the ids are distinct, and two
\* documents share an id only when replace gives them the same base name.
IdsDistinctUnlessBaseNamesCollide ==
    "create_dataset" \in called =>
        \A k, l \in DOMAIN full_dataset :
            (full_dataset[k][1] = full_dataset[l][1] /\ k # l) =>
                /\ Origins(listing)[k].txt # Origins(listing)[l].txt
                /\ DocumentBaseName(Origins(listing)[k].txt)
                     = DocumentBaseName(Origins(listing)[l].txt)

-----------------------------------------------------------------------------
(* Spec: main, run after run.  The file system holds two text directories  *)
(* and, once a run has saved it, the snapshot file.                        *)

ShelleyTxt == <<"s", "h", "e", "l", "l", "e", "y", ".", "t", "x", "t">>

Txts == <<"t", "x", "t", "s">>

More == <<"m", "o", "r", "e">>

Txt6 == <<"b", "b", " ", "a", "b">>

FileSystem ==
    (Txts :> (Austin1Txt :> Txt2 @@ ShelleyTxt :> Txt6 @@ NotesMd :> NotesText)) @@
    (More :> (ATxt :> Txt3 @@ NotesMd :> NotesText))

\* What parse_args can return: --text_dir, --n_feats, --load_full_ds, --save_full_ds.
ArgSets ==
    [text_dir : DOMAIN FileSystem, n_feats : 0..MaxFeats,
     load_full_ds : BOOLEAN, save_full_ds : BOOLEAN]

Init ==
    /\ args = NoArgs /\ pc = "idle" /\ err = "none"
    /\ dict_words = NoDict /\ full_dataset = <<>>
    /\ pruned_features = <<>> /\ selected = <<>> /\ csv = <<>>
    /\ full_ds_file = <<>>
    /\ called = {}
    /\ IdleText /\ IdleCorpus

others == <<text, ret_words, ret_paragraphs, called, corpusVars>>

\* args = parse_args(); main(args) starts.
ParseArgs ==
    /\ pc = "idle"
    /\ args' \in ArgSets
    /\ pc' = "main"
    /\ UNCHANGED <<err, dict_words, full_dataset, pruned_features, selected, csv,
                   full_ds_file, others>>

\* dict_words = create_dictionary(args.text_dir)
BuildDictionary ==
    /\ pc = "main"
    /\ \E order \in Orderings(Glob(args.text_dir, FileSystem[args.text_dir])) :
           dict_words' = create_dictionary(FileSystem[args.text_dir], order)
    /\ pc' = "have_dict"
    /\ UNCHANGED <<args, err, full_dataset, pruned_features, selected, csv,
                   full_ds_file, others>>

\* not args.load_full_ds: full_dataset = create_dataset(...), and
\* pickle.dump(full_dataset, ...) when args.save_full_ds.
GenerateDataset ==
    /\ pc = "have_dict"
    /\ ~args.load_full_ds
    /\ \E order \in Orderings(Glob(args.text_dir, FileSystem[args.text_dir])) :
           full_dataset' =
               create_dataset(dict_words, FileSystem[args.text_dir], MainClasses, order)
    /\ full_ds_file' = IF args.save_full_ds THEN <<full_dataset'>> ELSE full_ds_file
    /\ pc' = "have_dataset"
    /\ UNCHANGED <<args, err, dict_words, pruned_features, selected, csv, others>>

\* args.load_full_ds: full_dataset = pickle.load(open(args.full_ds, 'rb')); open
\* raises when no run has saved the file.
LoadDataset ==
    /\ pc = "have_dict"
    /\ args.load_full_ds
    /\ IF full_ds_file = <<>>
       THEN /\ err' = "FileNotFoundError"
            /\ pc' = "exit"
            /\ UNCHANGED full_dataset
       ELSE /\ full_dataset' = full_ds_file[1]
            /\ pc' = "have_dataset"
            /\ UNCHANGED err
    /\ UNCHANGED <<args, dict_words, pruned_features, selected, csv, full_ds_file, others>>

\* pruned_features = prune_dataset(full_dataset, args.n_feats, dict_words); the
\* read of a slot an example does not have raises.
PruneDataset ==
    /\ pc = "have_dataset"
    /\ IF Readable(full_dataset, dict_words)
       THEN \E ranking \in Rankings(full_dataset, dict_words) :
                LET pruned == prune_dataset(full_dataset, args.n_feats, dict_words, ranking)
                IN  /\ selected' = pruned.selected
                    /\ pruned_features' = pruned.features
                    /\ pc' = "pruned"
                    /\ UNCHANGED err
       ELSE /\ err' = "IndexError"
            /\ pc' = "exit"
            /\ UNCHANGED <<selected, pruned_features>>
    /\ UNCHANGED <<args, dict_words, full_dataset, csv, full_ds_file, others>>

\* csv = data_to_csv(full_dataset, pruned_features); print(csv); return 0
PrintCsv ==
    /\ pc = "pruned"
    /\ csv' = data_to_csv(full_dataset, pruned_features)
    /\ pc' = "exit"
    /\ UNCHANGED <<args, err, dict_words, full_dataset, pruned_features, selected,
                   full_ds_file, others>>

\* The process ends; of its state only the snapshot file remains.
ProcessExit ==
    /\ pc = "exit"
    /\ pc' = "idle"
    /\ args' = NoArgs /\ err' = "none"
    /\ dict_words' = NoDict /\ full_dataset' = <<>>
    /\ pruned_features' = <<>> /\ selected' = <<>> /\ csv' = <<>>
    /\ UNCHANGED <<full_ds_file, others>>

Next ==
    \/ ParseArgs
    \/ BuildDictionary
    \/ GenerateDataset
    \/ LoadDataset
    \/ PruneDataset
    \/ PrintCsv
    \/ ProcessExit

Spec == Init /\ [][Next]_vars

-----------------------------------------------------------------------------
(* Claims about main (Spec).                                               *)

\* C1 as stated: in every run, the dataset generated or loaded, every feature
\* vector of the dataset handed to the selector has length |V| + 1, V the
\* dict_words of that run.
C1_EveryVectorHasVocabularyWidth ==
    pc \in {"have_dataset", "pruned"} =>
        \A k \in DOMAIN full_dataset :
            DOMAIN full_dataset[k][2] = 0..Cardinality(DOMAIN dict_words)

\* What does hold: a dataset the run generated itself has that width.
GeneratedVectorsHaveVocabularyWidth ==
    (pc \in {"have_dataset", "pruned"} /\ ~args.load_full_ds) =>
        \A k \in DOMAIN full_dataset :
            DOMAIN full_dataset[k][2] = 0..Cardinality(DOMAIN dict_words)

RECURSIVE FieldsText(_, _)
FieldsText(row, j) ==
    IF j > Len(row) THEN <<>>
    ELSE <<",", " ">> \o <<Digits[row[j] + 1]>> \o FieldsText(row, j + 1)

\* C8: data_to_csv writes one line per example, in the dataset's order, each
\* ended by a line break: the i-th line is the id of example i, then ", " and
\* the value for each value of row i of the pruned features, in order.
C8_CsvLinesPairIdsAndRowsByPosition ==
    (pc = "exit" /\ err = "none") =>
        LET lines == SplitLines(csv)
        IN  /\ Len(lines) = Len(full_dataset)
            /\ Cardinality({p \in DOMAIN csv : csv[p] = "\n"}) = Len(full_dataset)
            /\ csv = <<>> \/ csv[Len(csv)] = "\n"
            /\ \A i \in DOMAIN lines :
                   lines[i] = full_dataset[i][1] \o FieldsText(pruned_features[i], 1)

\* A printed dataset of several examples whose rows, of two values or more,
\* are not all the same.
C8_Witness ==
    /\ pc = "exit" /\ err = "none"
    /\ Len(full_dataset) >= 2
    /\ \E i, j \in DOMAIN pruned_features :
           /\ pruned_features[i] # pruned_features[j]
           /\ Len(pruned_features[i]) >= 2
    /\ csv # <<>>

\* The selector ranks by gain: over the directory txts the word "bb" is in
\* every paragraph of shelley.txt and in none of austin1.txt, the only
\* feature of maximal gain, so it is the first one kept.
PerfectPredictorIsRankedFirst ==
    (pc = "pruned" /\ ~args.load_full_ds /\ args.text_dir = Txts /\ args.n_feats >= 1) =>
        selected[1] = dict_words[<<"b", "b">>]

====
